---- MODULE Spec2Model ----
(***************************************************************************)
(* Model of record-wav (src/src/main.rs): a capture callback pushes i16    *)
(* samples into a WavFile behind a Mutex; on the stop signal main locks    *)
(* the WavFile, sizes a byte vector with needed_size(), serializes the     *)
(* RIFF/WAVE container into it and writes it to out.wav.                   *)
(*                                                                         *)
(* Machine integers.  TLC's integers are 32-bit signed, so a u32 or usize  *)
(* that may exceed 2^31-1 is held as its little-endian memory image: a     *)
(* sequence of 4 (u32) or 8 (usize) bytes, least significant first.        *)
(* Arithmetic on such a word is done digit by digit and keeps the width   *)
(* of the Rust type.  Values known to be small (u16, i16, indices into a   *)
(* materialised buffer) stay TLC integers.                                 *)
(***************************************************************************)
EXTENDS Integers, Sequences, FiniteSets, TLC

(***************************************************************************)
(* Little-endian words                                                     *)
(***************************************************************************)

\* n.to_le_bytes() / `n as uW` for a non-negative n: the w low-order bytes.
RECURSIVE to_le_bytes(_, _)
to_le_bytes(n, w) ==
    IF w = 0 THEN <<>> ELSE <<n % 256>> \o to_le_bytes(n \div 256, w - 1)

\* Mutant of i16_to_le_bytes: the bytes in big-endian order (to_be_bytes).
i16_to_be_bytes(s) ==
    LET le == to_le_bytes(IF s < 0 THEN s + 65536 ELSE s, 2) IN <<le[2], le[1]>>

\* i16::to_le_bytes: the two's-complement image of a signed 16-bit value.
i16_to_le_bytes(s) == to_le_bytes(IF s < 0 THEN s + 65536 ELSE s, 2)

\* `x as u32` for a usize x: the four low-order bytes are kept.
as_u32(x) == SubSeq(x, 1, 4)

\* `n as usize` for a small non-negative n.
usize_of(n) == to_le_bytes(n, 8)

\* The value of a word that fits a TLC integer (used for lengths of regions
\* that are materialised).
RECURSIVE word_val_from(_, _)
word_val_from(word, i) ==
    IF i > Len(word) THEN 0 ELSE word[i] + 256 * word_val_from(word, i + 1)

word_val(word) == word_val_from(word, 1)

\* word * k with carry c, digit by digit from position i; the result has the
\* width of the word and the final carry (non-zero iff the product does not fit).
RECURSIVE word_mul_from(_, _, _, _)
word_mul_from(word, k, i, c) ==
    IF i > Len(word) THEN [digits |-> <<>>, carry |-> c]
    ELSE LET p == word[i] * k + c
             rest == word_mul_from(word, k, i + 1, p \div 256)
         IN  [digits |-> <<p % 256>> \o rest.digits, carry |-> rest.carry]

word_mul(word, k) == word_mul_from(word, k, 1, 0)

\* word + k for a small k >= 0, same scheme.
RECURSIVE word_add_from(_, _, _)
word_add_from(word, i, c) ==
    IF i > Len(word) THEN [digits |-> <<>>, carry |-> c]
    ELSE LET p == word[i] + c
             rest == word_add_from(word, i + 1, p \div 256)
         IN  [digits |-> <<p % 256>> \o rest.digits, carry |-> rest.carry]

word_add(word, k) == word_add_from(word, 1, k)

\* word - k for a small k >= 0 with borrow b (in units of the current digit).
RECURSIVE word_sub_from(_, _, _)
word_sub_from(word, i, b) ==
    IF i > Len(word) THEN [digits |-> <<>>, borrow |-> b]
    ELSE LET d == word[i] - (b % 256)
             here == IF d < 0 THEN d + 256 ELSE d
             nextb == (b \div 256) + (IF d < 0 THEN 1 ELSE 0)
             rest == word_sub_from(word, i + 1, nextb)
         IN  [digits |-> <<here>> \o rest.digits, borrow |-> rest.borrow]

word_sub(word, k) == word_sub_from(word, 1, k)

\* word / d for a small d > 0: long division from the most significant byte.
RECURSIVE word_div_from(_, _, _, _)
word_div_from(word, d, i, r) ==
    IF i = 0 THEN <<>>
    ELSE LET cur == r * 256 + word[i]
         IN  word_div_from(word, d, i - 1, cur % d) \o <<cur \div d>>

word_div(word, d) == word_div_from(word, d, Len(word), 0)

\* a < b for two words of the same width, compared from the top byte down.
RECURSIVE word_lt_from(_, _, _)
word_lt_from(a, b, i) ==
    IF i = 0 THEN FALSE
    ELSE IF a[i] # b[i] THEN a[i] < b[i]
    ELSE word_lt_from(a, b, i - 1)

word_lt(a, b) == word_lt_from(a, b, Len(a))

(***************************************************************************)
(* Results and byte regions                                                *)
(***************************************************************************)

\* Result<(), ()> of a serialize call together with the region as the call left
\* it; "Panic" is a call that unwound instead of returning.
Ok(buffer) == [res |-> "Ok", buf |-> buffer]
Err(buffer) == [res |-> "Err", buf |-> buffer]
Panic(buffer) == [res |-> "Panic", buf |-> buffer]

\* &buffer[lo..hi] (Rust offsets, from 0, hi excluded).
Slice(buffer, lo, hi) == SubSeq(buffer, lo + 1, hi)

\* buffer[lo..lo+len(bytes)].copy_from_slice(bytes)
copy_from_slice(buffer, lo, bytes) ==
    [i \in 1..Len(buffer) |->
        IF lo < i /\ i <= lo + Len(bytes) THEN bytes[i - lo] ELSE buffer[i]]

\* b"RIFF", b"WAVE", b"fmt ", b"data"
RIFF == <<82, 73, 70, 70>>
WAVE == <<87, 65, 86, 69>>
FMT == <<102, 109, 116, 32>>
DATA == <<100, 97, 116, 97>>

\* WavFormat::PCM = 1
PCM == 1

(***************************************************************************)
(* BinarySerialize for the scalars                                         *)
(***************************************************************************)

u32_needed_size(v) == 4
u16_needed_size(v) == 2
i16_needed_size(v) == 2
WavFormat_needed_size(v) == 2

\* v is a u32 word (four bytes, least significant first).
u32_serialize(v, buffer) ==
    IF Len(buffer) < u32_needed_size(v) THEN Err(buffer)
    ELSE Ok(copy_from_slice(buffer, 0, v))

u16_serialize(v, buffer) ==
    IF Len(buffer) < u16_needed_size(v) THEN Err(buffer)
    ELSE Ok(copy_from_slice(buffer, 0, to_le_bytes(v, 2)))

i16_serialize(v, buffer) ==
    IF Len(buffer) < i16_needed_size(v) THEN Err(buffer)
    ELSE Ok(copy_from_slice(buffer, 0, i16_to_le_bytes(v)))

WavFormat_serialize(v, buffer) ==
    IF Len(buffer) < WavFormat_needed_size(v) THEN Err(buffer)
    ELSE u16_serialize(v, buffer)

(***************************************************************************)
(* BinarySerialize for Vec<i16>                                            *)
(***************************************************************************)

\* Mutant of Vec_needed_size: the element count taken for the byte size.
Vec_needed_size_count(len) == usize_of(len)

\* Vec<T>::needed_size for a vector of len elements of type i16: the code reads
\* the vector only through len() and self[0].needed_size(), which ignores the
\* element's value.
Vec_needed_size(len) ==
    IF len = 0 THEN usize_of(0)
    ELSE word_mul(usize_of(len), i16_needed_size(0)).digits

\* The for loop of Vec<T>::serialize from element i at offset off.
RECURSIVE Vec_serialize_loop(_, _, _, _)
Vec_serialize_loop(v, buffer, i, off) ==
    IF i > Len(v) THEN Ok(buffer)
    ELSE LET n == i16_needed_size(v[i])
         IN  IF off + n > Len(buffer) THEN Panic(buffer)
             ELSE LET r == i16_serialize(v[i], Slice(buffer, off, off + n))
                      written == copy_from_slice(buffer, off, r.buf)
                  IN  IF r.res # "Ok" THEN [r EXCEPT !.buf = written]
                      ELSE Vec_serialize_loop(v, written, i + 1, off + n)

Vec_serialize(v, buffer) ==
    IF word_lt(usize_of(Len(buffer)), Vec_needed_size(Len(v))) THEN Err(buffer)
    ELSE Vec_serialize_loop(v, buffer, 1, 0)

(***************************************************************************)
(* WavFile                                                                 *)
(***************************************************************************)

WavFile_new(channels, sample_rate) ==
    [format |-> PCM, channels |-> channels, sample_rate |-> sample_rate,
     bits_per_sample |-> 16, samples |-> <<>>]

\* Mutant of push_sample: the sample is inserted at the front.
push_sample_front(w, sample) == [w EXCEPT !.samples = <<sample>> \o @]

push_sample(w, sample) == [w EXCEPT !.samples = Append(@, sample)]

\* 44 + self.samples.needed_size(), a usize, for a WavFile holding len samples.
WavFile_needed_size(len) == word_add(Vec_needed_size(len), 44).digits

\* a * k in u32: the wrapped product and whether the exact product fits.
u32_mul(a, k) ==
    LET m == word_mul(a, k) IN [val |-> m.digits, overflow |-> m.carry # 0]

\* (self.sample_rate * self.bits_per_sample as u32 * self.channels as u32) / 8
avg_bytes_per_sec(w) ==
    LET m1 == u32_mul(to_le_bytes(w.sample_rate, 4), w.bits_per_sample)
        m2 == u32_mul(m1.val, w.channels)
    IN  [val |-> word_div(m2.val, 8), overflow |-> m1.overflow \/ m2.overflow]

\* (self.bits_per_sample * self.channels) / 8 in u16
block_align(w) ==
    LET p == w.bits_per_sample * w.channels
    IN  [val |-> (p % 65536) \div 8, overflow |-> p >= 65536]

\* The writes of WavFile::serialize into buffer[0..44], in program order, for a
\* WavFile w holding len samples.  A field is the sub-slice it is given, how the
\* slice is written, the value, and whether computing the value overflowed.
header_fields(w, len) ==
    << [lo |-> 0,  hi |-> 4,  kind |-> "copy", val |-> RIFF, overflow |-> FALSE],
       [lo |-> 4,  hi |-> 8,  kind |-> "copy",
        val |-> as_u32(word_sub(WavFile_needed_size(len), 8).digits),
        overflow |-> FALSE],
       [lo |-> 8,  hi |-> 12, kind |-> "copy", val |-> WAVE, overflow |-> FALSE],
       [lo |-> 12, hi |-> 16, kind |-> "copy", val |-> FMT, overflow |-> FALSE],
       [lo |-> 16, hi |-> 20, kind |-> "u32", val |-> to_le_bytes(16, 4),
        overflow |-> FALSE],
       [lo |-> 20, hi |-> 22, kind |-> "WavFormat", val |-> w.format,
        overflow |-> FALSE],
       [lo |-> 22, hi |-> 24, kind |-> "u16", val |-> w.channels,
        overflow |-> FALSE],
       [lo |-> 24, hi |-> 28, kind |-> "u32",
        val |-> to_le_bytes(w.sample_rate, 4), overflow |-> FALSE],
       [lo |-> 28, hi |-> 32, kind |-> "u32", val |-> avg_bytes_per_sec(w).val,
        overflow |-> avg_bytes_per_sec(w).overflow],
       [lo |-> 32, hi |-> 34, kind |-> "u16", val |-> block_align(w).val,
        overflow |-> block_align(w).overflow],
       [lo |-> 34, hi |-> 36, kind |-> "u16", val |-> w.bits_per_sample,
        overflow |-> FALSE],
       [lo |-> 36, hi |-> 40, kind |-> "copy", val |-> DATA, overflow |-> FALSE],
       [lo |-> 40, hi |-> 44, kind |-> "copy",
        val |-> as_u32(Vec_needed_size(len)), overflow |-> FALSE] >>

\* One field written into its sub-slice.
serialize_field(f, slice) ==
    CASE f.kind = "copy" -> Ok(copy_from_slice(slice, 0, f.val))
      [] f.kind = "u32" -> u32_serialize(f.val, slice)
      [] f.kind = "u16" -> u16_serialize(f.val, slice)
      [] f.kind = "WavFormat" -> WavFormat_serialize(f.val, slice)

\* Lines 105-127: the fields one after the other from field i; `?` returns the
\* first Err, and with overflow checks compiled in an overflowing product panics
\* before its field is written.
RECURSIVE write_fields(_, _, _, _)
write_fields(fields, buffer, i, overflow_checks) ==
    IF i > Len(fields) THEN Ok(buffer)
    ELSE LET f == fields[i]
         IN  IF f.overflow /\ overflow_checks THEN Panic(buffer)
             ELSE LET r == serialize_field(f, Slice(buffer, f.lo, f.hi))
                      written == copy_from_slice(buffer, f.lo, r.buf)
                  IN  IF r.res # "Ok" THEN [r EXCEPT !.buf = written]
                      ELSE write_fields(fields, written, i + 1, overflow_checks)

\* Mutant of WavFile_serialize: the length check covers the header only and the
\* payload is left to the check of Vec<T>::serialize.
WavFile_serialize_header_check(w, buffer, overflow_checks) ==
    IF Len(buffer) < 44 THEN Err(buffer)
    ELSE LET h == write_fields(header_fields(w, Len(w.samples)), buffer, 1,
                               overflow_checks)
         IN  IF h.res # "Ok" THEN h
             ELSE LET r == Vec_serialize(w.samples, Slice(h.buf, 44, Len(h.buf)))
                  IN  [r EXCEPT !.buf = copy_from_slice(h.buf, 44, r.buf)]

WavFile_serialize(w, buffer, overflow_checks) ==
    IF word_lt(usize_of(Len(buffer)), WavFile_needed_size(Len(w.samples)))
    THEN Err(buffer)
    ELSE LET h == write_fields(header_fields(w, Len(w.samples)), buffer, 1,
                               overflow_checks)
         IN  IF h.res # "Ok" THEN h
             ELSE LET r == Vec_serialize(w.samples, Slice(h.buf, 44, Len(h.buf)))
                  IN  [r EXCEPT !.buf = copy_from_slice(h.buf, 44, r.buf)]

(***************************************************************************)
(* Bounds and inputs                                                       *)
(***************************************************************************)

\* Samples delivered by the capture callbacks in one run.
MaxSamples == 3
\* Longest data slice one callback invocation delivers.
MaxData == 2
\* Longest sample vector handed to serialize when it is called on its own.
MaxVecLen == 2
\* Bytes a region handed to serialize may have beyond needed_size().
MaxSlack == 1

SampleValues == {0, -1, 32767, -32768}
ChannelCounts == {1, 2, 4096}
SampleRates == {8000, 44100, 268435456}
\* What a region holds before serialize is called on it.
FillBytes == {170}
\* Sample counts of recordings too long to materialise: about 4 GiB of payload,
\* which a usize length and a 64-bit address space allow.
LongRecordings == {2147483629, 2147483630, 2147483647}

\* Sequences over S of length at most n.
SeqsUpTo(S, n) == UNION {[1..k -> S] : k \in 0..n}

(***************************************************************************)
(* State                                                                   *)
(***************************************************************************)

VARIABLES
    file,             \* the WavFile inside the Mutex
    lock,             \* the Mutex: "free", "main", "callback" or "poisoned"
    pc,               \* where main (or the caller of serialize) stands
    cb,               \* the capture callback: "idle", "invoked", "pushing"
    data,             \* what is left of the callback's data slice
    stream,           \* the input stream: "playing" or "dropped"
    raw,              \* the byte vector main serializes into
    ser,              \* outcome of the serialize call: "none", "Ok", "Err", "Panic"
    out_wav,          \* out.wav: whether it was created, and its bytes
    pushes,           \* number of samples the WavFile holds (push_sample calls)
    overflow_checks   \* whether the build panics on integer overflow

vars == <<file, lock, pc, cb, data, stream, raw, ser, out_wav, pushes,
          overflow_checks>>

(***************************************************************************)
(* The main flow and the capture callback                                  *)
(***************************************************************************)

\* Lines 28-48: the WavFile is created empty and the stream is playing.
Init ==
    /\ \E c \in ChannelCounts, r \in SampleRates : file = WavFile_new(c, r)
    /\ overflow_checks \in BOOLEAN
    /\ lock = "free"
    /\ pc = "recording"
    /\ cb = "idle"
    /\ data = <<>>
    /\ stream = "playing"
    /\ raw = <<>>
    /\ ser = "none"
    /\ out_wav = [created |-> FALSE, bytes |-> <<>>]
    /\ pushes = 0

\* The driver invokes the callback with a data slice (line 38).
CbInvoke ==
    /\ stream = "playing"
    /\ cb = "idle"
    /\ \E d \in SeqsUpTo(SampleValues, MaxData) :
          /\ pushes + Len(d) <= MaxSamples
          /\ data' = d
    /\ cb' = "invoked"
    /\ UNCHANGED <<file, lock, pc, stream, raw, ser, out_wav, pushes,
                   overflow_checks>>

\* Mutant of CbLock: the callback goes on without acquiring the Mutex.
CbLock_without_mutex ==
    /\ cb = "invoked"
    /\ cb' = "pushing"
    /\ UNCHANGED <<file, lock, pc, data, stream, raw, ser, out_wav, pushes,
                   overflow_checks>>

\* file_thread.lock().unwrap() (line 39)
CbLock ==
    /\ cb = "invoked"
    /\ lock = "free"
    /\ lock' = "callback"
    /\ cb' = "pushing"
    /\ UNCHANGED <<file, pc, data, stream, raw, ser, out_wav, pushes,
                   overflow_checks>>

\* One iteration of the for loop (lines 40-42).
CbPush ==
    /\ cb = "pushing"
    /\ data # <<>>
    /\ file' = push_sample(file, Head(data))
    /\ data' = Tail(data)
    /\ pushes' = pushes + 1
    /\ UNCHANGED <<lock, pc, cb, stream, raw, ser, out_wav, overflow_checks>>

\* The closure returns and its guard is dropped (line 43).
CbReturn ==
    /\ cb = "pushing"
    /\ data = <<>>
    /\ lock' = "free"
    /\ cb' = "idle"
    /\ UNCHANGED <<file, pc, data, stream, raw, ser, out_wav, pushes,
                   overflow_checks>>

\* read_line returns (line 53).
StopSignal ==
    /\ pc = "recording"
    /\ pc' = "stopped"
    /\ UNCHANGED <<file, lock, cb, data, stream, raw, ser, out_wav, pushes,
                   overflow_checks>>

\* let file = file.lock().unwrap() (line 55)
MainLock ==
    /\ pc = "stopped"
    /\ lock = "free"
    /\ lock' = "main"
    /\ pc' = "locked"
    /\ UNCHANGED <<file, cb, data, stream, raw, ser, out_wav, pushes,
                   overflow_checks>>

\* Mutant of MainAlloc: the vector is sized with one byte per sample.
MainAlloc_byte_per_sample ==
    /\ pc = "locked"
    /\ raw' = [i \in 1..(44 + Len(file.samples)) |-> 0]
    /\ pc' = "allocated"
    /\ UNCHANGED <<file, lock, cb, data, stream, ser, out_wav, pushes,
                   overflow_checks>>

\* let mut raw = vec![0u8; file.needed_size()] (line 56)
MainAlloc ==
    /\ pc = "locked"
    /\ raw' = [i \in 1..word_val(WavFile_needed_size(Len(file.samples))) |-> 0]
    /\ pc' = "allocated"
    /\ UNCHANGED <<file, lock, cb, data, stream, ser, out_wav, pushes,
                   overflow_checks>>

\* file.serialize(&mut raw).expect(..) (lines 57-58): anything but Ok panics.
MainSerialize ==
    /\ pc = "allocated"
    /\ LET r == WavFile_serialize(file, raw, overflow_checks)
       IN  /\ raw' = r.buf
           /\ ser' = r.res
           /\ pc' = IF r.res = "Ok" THEN "serialized" ELSE "panicked"
    /\ UNCHANGED <<file, lock, cb, data, stream, out_wav, pushes,
                   overflow_checks>>

\* std::fs::File::create("out.wav") (line 60)
MainCreate ==
    /\ pc = "serialized"
    /\ out_wav' = [created |-> TRUE, bytes |-> <<>>]
    /\ pc' = "created"
    /\ UNCHANGED <<file, lock, cb, data, stream, raw, ser, pushes,
                   overflow_checks>>

\* output.write_all(&raw) (lines 61-63)
MainWrite ==
    /\ pc = "created"
    /\ out_wav' = [out_wav EXCEPT !.bytes = raw]
    /\ pc' = "written"
    /\ UNCHANGED <<file, lock, cb, data, stream, raw, ser, pushes,
                   overflow_checks>>

\* End of main (line 64): the locals are dropped in reverse order of
\* declaration, the guard `file` (line 55) before input_stream (line 35).
MainDropGuard ==
    /\ pc = "written"
    /\ lock' = "free"
    /\ pc' = "unlocked"
    /\ UNCHANGED <<file, cb, data, stream, raw, ser, out_wav, pushes,
                   overflow_checks>>

MainDropStream ==
    /\ pc = "unlocked"
    /\ stream' = "dropped"
    /\ pc' = "exited"
    /\ UNCHANGED <<file, lock, cb, data, raw, ser, out_wav, pushes,
                   overflow_checks>>

\* The panic of line 58 unwinds main: the guard is dropped while panicking,
\* which poisons the Mutex, and the stream is dropped.
MainUnwind ==
    /\ pc = "panicked"
    /\ lock' = "poisoned"
    /\ stream' = "dropped"
    /\ pc' = "aborted"
    /\ UNCHANGED <<file, cb, data, raw, ser, out_wav, pushes, overflow_checks>>

Next ==
    \/ CbInvoke \/ CbLock \/ CbPush \/ CbReturn
    \/ StopSignal \/ MainLock \/ MainAlloc \/ MainSerialize
    \/ MainCreate \/ MainWrite \/ MainDropGuard \/ MainDropStream
    \/ MainUnwind

Spec == Init /\ [][Next]_vars

(***************************************************************************)
(* serialize called on its own: a WavFile holding any samples, into a      *)
(* region of any length                                                    *)
(***************************************************************************)

InitSer ==
    /\ \E c \in ChannelCounts, r \in SampleRates,
          s \in SeqsUpTo(SampleValues, MaxVecLen) :
          /\ file = [WavFile_new(c, r) EXCEPT !.samples = s]
          /\ pushes = Len(s)
          /\ \E n \in 0..(44 + 2 * Len(s) + MaxSlack), b \in FillBytes :
                raw = [i \in 1..n |-> b]
    /\ overflow_checks \in BOOLEAN
    /\ pc = "call"
    /\ ser = "none"
    /\ lock = "main"
    /\ cb = "idle"
    /\ data = <<>>
    /\ stream = "dropped"
    /\ out_wav = [created |-> FALSE, bytes |-> <<>>]

\* file.serialize(&mut raw)
CallWavFileSerialize ==
    /\ pc = "call"
    /\ LET r == WavFile_serialize(file, raw, overflow_checks)
       IN  raw' = r.buf /\ ser' = r.res
    /\ pc' = "returned_wav"
    /\ UNCHANGED <<file, lock, cb, data, stream, out_wav, pushes,
                   overflow_checks>>

\* file.samples.serialize(&mut raw)
CallVecSerialize ==
    /\ pc = "call"
    /\ LET r == Vec_serialize(file.samples, raw)
       IN  raw' = r.buf /\ ser' = r.res
    /\ pc' = "returned_vec"
    /\ UNCHANGED <<file, lock, cb, data, stream, out_wav, pushes,
                   overflow_checks>>

NextSer == CallWavFileSerialize \/ CallVecSerialize

SpecSer == InitSer /\ [][NextSer]_vars

(***************************************************************************)
(* The header of a recording whose payload is not materialised: the        *)
(* WavFile holds `pushes` samples and raw is buffer[0..44] of a zeroed     *)
(* region of needed_size() bytes                                           *)
(***************************************************************************)

InitHeader ==
    /\ \E c \in ChannelCounts, r \in SampleRates :
          file = [format |-> PCM, channels |-> c, sample_rate |-> r,
                  bits_per_sample |-> 16]
    /\ pushes \in (0..MaxVecLen) \cup LongRecordings
    /\ overflow_checks \in BOOLEAN
    /\ raw = [i \in 1..44 |-> 0]
    /\ pc = "call"
    /\ ser = "none"
    /\ lock = "main"
    /\ cb = "idle"
    /\ data = <<>>
    /\ stream = "dropped"
    /\ out_wav = [created |-> FALSE, bytes |-> <<>>]

\* Lines 105-127 of WavFile::serialize, past the length check.
WriteHeader ==
    /\ pc = "call"
    /\ LET r == write_fields(header_fields(file, pushes), raw, 1, overflow_checks)
       IN  raw' = r.buf /\ ser' = r.res
    /\ pc' = "returned_header"
    /\ UNCHANGED <<file, lock, cb, data, stream, out_wav, pushes,
                   overflow_checks>>

NextHeader == WriteHeader

SpecHeader == InitHeader /\ [][NextHeader]_vars

(***************************************************************************)
(* Properties                                                              *)
(***************************************************************************)

\* The i16 stored little-endian in two bytes.
le_i16(lo, hi) ==
    LET u == lo + 256 * hi IN IF u >= 32768 THEN u - 65536 ELSE u

\* The samples read back from the payload of a container (offset 44 onwards).
PayloadSamples(buffer) ==
    [i \in 1..((Len(buffer) - 44) \div 2) |->
        le_i16(buffer[43 + 2 * i], buffer[44 + 2 * i])]

IsPrefix(a, b) == Len(a) <= Len(b) /\ SubSeq(b, 1, Len(a)) = a

\* A u32 field read back from a region, widened to a usize.
read_u32(buffer, lo) == Slice(buffer, lo, lo + 4) \o <<0, 0, 0, 0>>

\* C1: in main's section (lock, needed_size, allocate, serialize) the payload
\* serialize wrote holds as many samples as the WavFile held when needed_size()
\* sized the vector, and no push takes effect between the size query and the
\* end of serialization.
C1_PayloadMatchesSizeQuery ==
    /\ [](pc \in {"serialized", "created", "written"} =>
            /\ ser = "Ok"
            /\ Len(raw) - 44 = 2 * Len(file.samples)
            /\ Len(PayloadSamples(raw)) = pushes)
    /\ [][(pc \in {"locked", "allocated"}) => (file'.samples = file.samples)]_vars

C1_Witness ==
    /\ pc = "serialized"
    /\ ser = "Ok"
    /\ Len(file.samples) >= 2
    /\ cb = "invoked"
    /\ data # <<>>

\* C2: after a successful serialize into a region of exactly needed_size()
\* bytes, the u32 at offsets 4..8 plus 8 is the length of the region
\* (44 + 2n) and the u32 at offsets 40..44 is 2n, for every sample count n.
C2_SizeFieldsAgree ==
    (pc = "returned_header" /\ ser = "Ok") =>
        /\ word_add(read_u32(raw, 4), 8).digits
              = word_add(word_mul(usize_of(pushes), 2).digits, 44).digits
        /\ read_u32(raw, 40) = word_mul(usize_of(pushes), 2).digits

\* C3: after n push_sample calls on a WavFile made by new(), needed_size() is
\* 44 + 2n (44 for the empty buffer), so k more pushes raise it by 2k.
C3_NeededSize ==
    WavFile_needed_size(Len(file.samples)) = usize_of(44 + 2 * pushes)

C3_Witness ==
    /\ pushes = 2
    /\ cb = "pushing"
    /\ data # <<>>
    /\ WavFile_needed_size(Len(file.samples)) = usize_of(48)

\* C4: WavFile::serialize returns Err exactly when the region is shorter than
\* needed_size(), and a region of needed_size() bytes or more yields Ok.
C4_ErrIffShort ==
    pc = "returned_wav" =>
        IF Len(raw) < 44 + 2 * Len(file.samples) THEN ser = "Err" ELSE ser = "Ok"

\* C5: in the main flow serialize() never returns the capacity error, whatever
\* the callbacks do before, during and after the stop signal.
C5_NoCapacityError == ser # "Err"

C5_Witness ==
    /\ pc = "created"
    /\ ser = "Ok"
    /\ Len(raw) > 44
    /\ cb = "invoked"

\* C6: the Mutex is never held while out.wav is being created or written, so
\* no callback waits on it for the duration of the file I/O.
C6_NoLockAcrossIO == pc = "created" => lock # "main"

\* C7: when WavFile::serialize or Vec<T>::serialize returns Err, every byte of
\* the region has the value it had before the call.
C7_NoPartialWrite == [][ser' = "Err" => raw' = raw]_vars

C7_Witness ==
    /\ pc = "returned_wav"
    /\ ser = "Err"
    /\ Len(raw) >= 44
    /\ file.samples # <<>>

\* C8: a successful serialize writes sample_rate * 16 * channels / 8 at offsets
\* 28..32 and 16 * channels / 8 at offsets 32..34, the products being exact, and
\* computing the two fields never overflows or aborts.
C8_RatesExact ==
    (pc = "returned_wav" /\ Len(raw) >= 44 + 2 * Len(file.samples)) =>
        /\ ser = "Ok"
        /\ Slice(raw, 32, 34) = to_le_bytes((16 * file.channels) \div 8, 2)
        /\ file.sample_rate <= 2147483647 \div (16 * file.channels) =>
              Slice(raw, 28, 32)
                 = to_le_bytes((file.sample_rate * 16 * file.channels) \div 8, 4)

\* C9: after a successful WavFile::serialize the bytes at offsets 44+2i and
\* 44+2i+1 are the low and the high byte of the two's-complement encoding of
\* the i-th sample, in push order, right after the 44-byte header.
C9_PayloadLayout ==
    (pc = "returned_wav" /\ ser = "Ok") =>
        /\ Len(raw) >= 44 + 2 * Len(file.samples)
        /\ \A i \in 1..Len(file.samples) :
              /\ raw[43 + 2 * i] = file.samples[i] % 256
              /\ raw[44 + 2 * i] = (file.samples[i] \div 256) % 256

C9_Witness ==
    /\ pc = "returned_wav"
    /\ ser = "Ok"
    /\ file.samples = <<-32768, 32767>>
    /\ Slice(raw, 44, 48) = <<0, 128, 255, 127>>

\* C10: a step only ever appends one sample at the end of the buffer, the
\* buffer does not change while main holds the lock, and the bytes written to
\* out.wav, written once and under that lock, carry exactly the samples the
\* buffer held when main acquired it, in push order.
C10_AppendOnlySnapshot ==
    [][/\ IsPrefix(file.samples, file'.samples)
       /\ Len(file'.samples) <= Len(file.samples) + 1
       /\ lock = "main" => file'.samples = file.samples
       /\ out_wav'.bytes # out_wav.bytes =>
             /\ lock = "main"
             /\ out_wav.bytes = <<>>
             /\ Len(out_wav'.bytes) = 44 + 2 * Len(file.samples)
             /\ (PayloadSamples(out_wav'.bytes) = file.samples)]_vars

C10_Witness ==
    /\ pc = "exited"
    /\ out_wav.bytes # <<>>
    /\ PayloadSamples(out_wav.bytes) # <<>>
    /\ Len(file.samples) > Len(PayloadSamples(out_wav.bytes))

====
